---- MODULE Spec2Model ----
(***************************************************************************)
(* ETLPipeline (03-pipeline-etl/src/pipeline.py): the constructor and the  *)
(* extract, transform, load, run and get_execution_log methods of one      *)
(* orchestrator instance, its execution log and its configuration.  The    *)
(* extractors, the cleaner, the validator and the database loader are      *)
(* imported collaborators: each of their calls either returns a value or   *)
(* raises an Exception, chosen by the environment.  Spec has a caller that *)
(* only reads the list get_execution_log returns; SpecCaller has one that  *)
(* keeps that list and may empty it.                                       *)
(*                                                                         *)
(* SalesForecaster (05-ml-previsao-vendas/src/model_training.py): one      *)
(* forecaster, its estimator and its is_trained flag, under the calls of   *)
(* its methods, in SpecForecaster.                                         *)
(***************************************************************************)
EXTENDS Integers, Sequences, FiniteSets, TLC

\* Rows a dataframe can hold.
MaxRows == 1
\* Calls of extract, transform, load and run the caller makes on one orchestrator
\* instance.
MaxCalls == 2
\* Calls of get_execution_log the caller makes in a row, with no call of extract,
\* transform, load or run between them.
MaxReads == 2
\* Training and prediction sets handed to a forecaster.
MaxData == 2
\* Paths handed to save_model and load_model.
MaxPaths == 2

(***************************************************************************)
(* Values                                                                  *)
(***************************************************************************)
\* A dataframe is the set of the rows it holds; len(df) is their number.
Frames == SUBSET (1..MaxRows)

DfLen(d) == Cardinality(d)

SourceIds == {"csv", "api", "db"}

RuleIds == {"clean", "validate", "enrich"}

\* The documented default mode and one that is not documented.
Modes == {"incremental", "merge"}

ConfigKeys == {"csv_path", "api_url", "database"}

ConfigValue(k) == IF k = "csv_path" THEN "data/vendas.csv"
                  ELSE IF k = "api_url" THEN "https://api/vendas"
                  ELSE "postgres"

\* The configurations yaml.safe_load can hand back: a mapping holding every key,
\* or every key but one.
Configs == {[k \in K |-> ""] : K \in {ConfigKeys} \cup {ConfigKeys \ {x} : x \in ConfigKeys}}

LoadConfig(c) == [k \in DOMAIN c |-> ConfigValue(k)]

\* Python's None, where a string is expected.
None == "None"

\* dict.get(key): the value, or None for a missing key.
Get(c, k) == IF k \in DOMAIN c THEN c[k] ELSE None

\* Exceptions: a type and the text str(e) gives.
NoException == [type |-> "None", msg |-> ""]

Exc(t, m) == [type |-> t, msg |-> m]

\* self.config['database'] on a configuration without that key.
KeyErrorDatabase == Exc("KeyError", "'database'")

\* What a collaborator call can do: return a dataframe (df) or a count (n), or raise.
Returns(d, k) == [ok |-> TRUE, df |-> d, n |-> k, exc |-> NoException]

Raises(e) == [ok |-> FALSE, df |-> {}, n |-> 0, exc |-> e]

(***************************************************************************)
(* dict, in insertion order: a sequence of <<key, value>> pairs            *)
(***************************************************************************)
DictKeys(d) == {d[i][1] : i \in 1..Len(d)}

HasKey(d, k) == \E i \in 1..Len(d) : d[i][1] = k

DictGet(d, k) == d[CHOOSE i \in 1..Len(d) : d[i][1] = k][2]

\* d[k] = v
DictSet(d, k, v) ==
    IF HasKey(d, k)
    THEN [i \in 1..Len(d) |-> IF d[i][1] = k THEN <<k, v>> ELSE d[i]]
    ELSE Append(d, <<k, v>>)

RECURSIVE SumLen(_)
\* sum(len(df) for df in d.values())
SumLen(d) == IF d = <<>> THEN 0 ELSE DfLen(Head(d)[2]) + SumLen(Tail(d))

\* x in a_list
In(x, list) == \E i \in 1..Len(list) : list[i] = x

\* The lists without a repeated element over a set of identifiers.
RECURSIVE ListsOver(_)
ListsOver(S) ==
    {<<>>} \cup UNION {{<<x>> \o l : l \in ListsOver(S \ {x})} : x \in S}

\* The dicts a caller can hand to transform or load: any keys among csv and api,
\* in any order, any dataframes.
DataKeys == {"csv", "api"}

DataInputs ==
    UNION {{[i \in 1..Len(ks) |-> <<ks[i], f[i]>>] : f \in [1..Len(ks) -> Frames]}
           : ks \in ListsOver(DataKeys)}

(***************************************************************************)
(* The collaborators (imported classes)                                    *)
(***************************************************************************)
\* CSVExtractor(path), APIExtractor(url): a missing (None) parameter makes the
\* instantiation fail.
ExtractorInit(cls, param) ==
    IF param = None THEN Raises(Exc("Exception", cls \o ": no source"))
    ELSE Returns({}, 0)

\* extractor.extract(): a dataframe, or a failure.
ExtractorExtract(cls) ==
    {Returns(f, 0) : f \in Frames} \cup {Raises(Exc("Exception", cls \o ".extract failed"))}

\* DataCleaner().clean(df): a new dataframe with some rows dropped, or a failure.
CleanerClean(d) ==
    {Returns(f, 0) : f \in SUBSET d} \cup {Raises(Exc("Exception", "clean failed"))}

\* DataValidator().validate(df): the accepted rows and a report counting them, or a failure.
ValidatorValidate(d) ==
    {Returns(f, DfLen(f)) : f \in SUBSET d} \cup {Raises(Exc("Exception", "validate failed"))}

\* DatabaseLoader(db_config): a loader bound to the database block, which it leaves
\* as it is, or a failure.
LoaderInit(db) ==
    {Returns({}, 0), Raises(Exc("Exception", "DatabaseLoader: no connection"))}

\* DatabaseLoader(db_config).load(df, mode): the count of records written, or a failure.
LoaderLoad(d, m) ==
    {Returns({}, k) : k \in 0..DfLen(d)} \cup {Raises(Exc("Exception", "load failed"))}

(***************************************************************************)
(* State                                                                   *)
(***************************************************************************)
VARIABLES
    config,          \* self.config
    execution_log,   \* self.execution_log
    top,             \* the method the caller invoked, "none" between calls
    pc,              \* where that method is: idle, run_transform, run_load, returned
    ncalls,          \* calls the caller has made
    run_frame,       \* run's arguments and locals
    ret,             \* what the last call returned to the caller
    raised,          \* the exception the last call raised to the caller
    calls,           \* history: the collaborator calls of the current caller's call
    phases,          \* history: the extract/transform/load invocations of that call
    logged,          \* history: what run wrote to the logger in that call
    reads,           \* history: the get_execution_log calls since the last phase call
    held,            \* the list a caller got from get_execution_log and kept
    config_file,     \* history: the file at config_path when the constructor read it
    database         \* the number of records the loader has written to the database

\* The state of a SalesForecaster (05-ml-previsao-vendas/src/model_training.py).
VARIABLES
    model_type,      \* self.model_type
    model,           \* self.model: the estimator object
    is_trained,      \* self.is_trained
    files,           \* what is stored at each path joblib is given
    fcall            \* history: the last call made on the forecaster

fvars == <<model_type, model, is_trained, files, fcall>>

pvars == <<config, execution_log, top, pc, ncalls, run_frame, ret, raised,
           calls, phases, logged, reads, held, config_file, database>>

vars == <<config, execution_log, top, pc, ncalls, run_frame, ret, raised,
          calls, phases, logged, reads, held, config_file, database,
          model_type, model, is_trained, files, fcall>>

EmptyRunFrame ==
    [extract_sources |-> {}, transform_rules |-> <<>>, load_mode |-> "",
     extracted_data |-> <<>>, transformed_data |-> <<>>]

RetNone == [kind |-> "None", val |-> <<>>]

RetDict(d) == [kind |-> "dict", val |-> d]

\* Mutant: a new list holding the entries is returned.
RetList_Copy(l) == [kind |-> "list", val |-> l, obj |-> "list(self.execution_log)"]

\* `return self.execution_log`: the list object the attribute names is handed over
\* (obj); val is what it holds at that moment.
RetList(l) == [kind |-> "list", val |-> l, obj |-> "self.execution_log"]

\* No mapping: what self.config is when there is no orchestrator.
NoConfig == [k \in {} |-> ""]

\* The file at config_path: a YAML mapping, a text that is no YAML document, or no
\* file at all.
ConfigFiles ==
    {[kind |-> "mapping", doc |-> c] : c \in Configs}
        \cup {[kind |-> "malformed", doc |-> NoConfig], [kind |-> "missing", doc |-> NoConfig]}

\* Lines 49-53, _load_config: open() raises for a missing file, yaml.safe_load()
\* for a malformed one; the mapping is returned as it was parsed, whatever its keys.
load_config(file) ==
    IF file.kind = "missing"
    THEN [ok |-> FALSE, config |-> NoConfig,
          exc |-> Exc("FileNotFoundError", "No such file or directory")]
    ELSE IF file.kind = "malformed"
    THEN [ok |-> FALSE, config |-> NoConfig, exc |-> Exc("YAMLError", "could not parse")]
    ELSE [ok |-> TRUE, config |-> LoadConfig(file.doc), exc |-> NoException]

\* Mutant: the constructor checks the keys and raises a ConfigError when one is missing.
ETLPipeline_RequiresKeys(file) ==
    LET c == load_config(file)
    IN  IF c.ok /\ DOMAIN c.config # ConfigKeys
        THEN [ok |-> FALSE, config |-> NoConfig, execution_log |-> <<>>,
              exc |-> Exc("ConfigError", "missing key")]
        ELSE [ok |-> c.ok, config |-> c.config, execution_log |-> <<>>, exc |-> c.exc]

\* Lines 37-47, __init__: self.config = self._load_config(config_path), whose
\* exception ends the construction, then self.execution_log = [].
ETLPipeline(file) ==
    LET c == load_config(file)
    IN  [ok |-> c.ok, config |-> c.config, execution_log |-> <<>>, exc |-> c.exc]

(***************************************************************************)
(* SalesForecaster (05-ml-previsao-vendas/src/model_training.py): the      *)
(* estimators, the files joblib reads and writes, and the methods of one   *)
(* forecaster.  The estimator classes and joblib are libraries: each of    *)
(* their calls returns or raises, chosen by the environment where the      *)
(* arguments leave it open.                                                *)
(***************************************************************************)
\* The keys of the dict `models`, lines 39-54.
ModelTypes == {"linear", "random_forest", "xgboost"}

\* What a caller passes as model_type: a key of `models`, or a string that is none.
ModelTypeInputs == ModelTypes \cup {"prophet"}

EstimatorClass(t) == IF t = "linear" THEN "LinearRegression"
                     ELSE IF t = "random_forest" THEN "RandomForestRegressor"
                     ELSE "XGBRegressor"

\* models[t]: a new estimator of the class of t.  `fitted` names the training set
\* the estimator was last fitted on, 0 while it has never been fitted.
Estimator(t) == [cls |-> EstimatorClass(t), fitted |-> 0]

IsEstimator(m) == m.cls \in {EstimatorClass(t) : t \in ModelTypes}

\* self.model where there is no forecaster.
NoModel == [cls |-> "None", fitted |-> 0]

\* The training and prediction sets a caller passes.
Data == 1..MaxData

\* The paths a caller passes to save_model and load_model.
Paths == 1..MaxPaths

\* At a path: no file, a file joblib cannot read, or the object a joblib.dump wrote,
\* which need not be an estimator.
Absent == [cls |-> "no file", fitted |-> 0]

Corrupt == [cls |-> "not a joblib file", fitted |-> 0]

SomeObject == [cls |-> "dict", fitted |-> 0]

\* What the paths hold before the forecaster is made.
InitialFiles ==
    [Paths -> {Absent, Corrupt, SomeObject, Estimator("xgboost"),
               [Estimator("linear") EXCEPT !.fitted = 1]}]

\* self.model.fit(X_train, y_train), line 110: the estimator is fitted in place, or
\* fit raises (the data does not suit it) and the estimator is as it was; an object
\* that is no estimator has no fit.
Fit(m, d) ==
    IF ~IsEstimator(m)
    THEN {[ok |-> FALSE, obj |-> m, exc |-> Exc("AttributeError", "fit")]}
    ELSE {[ok |-> TRUE, obj |-> [m EXCEPT !.fitted = d], exc |-> NoException],
          [ok |-> FALSE, obj |-> m, exc |-> Exc("ValueError", "fit failed")]}

\* self.model.predict(X), line 128: an estimator that was fitted returns
\* predictions, or raises (X does not suit it); one never fitted raises, and so
\* does an object with no predict.
ModelPredict(m, d) ==
    IF ~IsEstimator(m) THEN {Raises(Exc("AttributeError", "predict"))}
    ELSE IF m.fitted = 0 THEN {Raises(Exc("NotFittedError", "not fitted"))}
    ELSE {Returns({}, 0), Raises(Exc("ValueError", "predict failed"))}

\* joblib.dump(self.model, filepath), line 195: the object is written at the path,
\* or dump raises and the path holds what it held.
JoblibDump(fs, m, p) ==
    {[ok |-> TRUE, files |-> [fs EXCEPT ![p] = m], exc |-> NoException],
     [ok |-> FALSE, files |-> fs, exc |-> Exc("OSError", "dump failed")]}

\* joblib.load(filepath), line 205: the object stored at the path, or an exception
\* when there is no file or none joblib can read.
JoblibLoad(fs, p) ==
    IF fs[p] = Absent
    THEN [ok |-> FALSE, obj |-> NoModel, exc |-> Exc("FileNotFoundError", "no file")]
    ELSE IF fs[p] = Corrupt
    THEN [ok |-> FALSE, obj |-> NoModel, exc |-> Exc("Exception", "load failed")]
    ELSE [ok |-> TRUE, obj |-> fs[p], exc |-> NoException]

\* Lines 37-59, _initialize_model: the estimator of self.model_type, or a ValueError
\* for a type that is no key of `models`.
initialize_model(t) ==
    IF t \notin ModelTypes
    THEN [ok |-> FALSE, model |-> NoModel, exc |-> Exc("ValueError", "Modelo nao suportado")]
    ELSE [ok |-> TRUE, model |-> Estimator(t), exc |-> NoException]

\* Mutant: the constructor leaves is_trained True.
SalesForecaster_StartsTrained(t) ==
    LET m == initialize_model(t)
    IN  [ok |-> m.ok, exc |-> m.exc,
         self |-> [model_type |-> t, model |-> m.model, is_trained |-> m.ok]]

\* Lines 26-35, __init__: self.model_type, then self.model, whose ValueError ends
\* the construction, then self.is_trained = False.
SalesForecaster(t) ==
    LET m == initialize_model(t)
    IN  [ok |-> m.ok, exc |-> m.exc,
         self |-> [model_type |-> t, model |-> m.model, is_trained |-> FALSE]]

\* A method of the forecaster has ended: the forecaster and the files after it,
\* whether it returned, and what it raised.
Ends(self, fs, ok, exc) == [self |-> self, files |-> fs, ok |-> ok, exc |-> exc]

\* Mutant: is_trained is set before the estimator is fitted.
train_FlagFirst(self, fs, d) ==
    {Ends([self EXCEPT !.model = f.obj, !.is_trained = TRUE], fs, f.ok, f.exc)
     : f \in Fit(self.model, d)}

\* Lines 100-113, train: self.model.fit(X_train, y_train), whose exception ends the
\* call, then self.is_trained = True.
train(self, fs, d) ==
    {IF f.ok
     THEN Ends([self EXCEPT !.model = f.obj, !.is_trained = TRUE], fs, TRUE, NoException)
     ELSE Ends([self EXCEPT !.model = f.obj], fs, FALSE, f.exc)
     : f \in Fit(self.model, d)}

\* Mutant: predict hands X to the estimator without looking at is_trained.
predict_Unguarded(self, fs, d) ==
    {Ends(self, fs, o.ok, o.exc) : o \in ModelPredict(self.model, d)}

\* Lines 115-130, predict: a ValueError unless is_trained, else what
\* self.model.predict(X) returns or raises.
predict(self, fs, d) ==
    IF ~self.is_trained
    THEN {Ends(self, fs, FALSE, Exc("ValueError", "Modelo nao treinado. Execute train() primeiro."))}
    ELSE {Ends(self, fs, o.ok, o.exc) : o \in ModelPredict(self.model, d)}

\* Lines 185-196, save_model: a ValueError unless is_trained, else
\* joblib.dump(self.model, filepath).
save_model(self, fs, p) ==
    IF ~self.is_trained
    THEN {Ends(self, fs, FALSE, Exc("ValueError", "Modelo nao treinado"))}
    ELSE {Ends(self, o.files, o.ok, o.exc) : o \in JoblibDump(fs, self.model, p)}

\* Mutant: a file that cannot be loaded leaves the forecaster without a model,
\* untrained.
load_model_ResetsOnError(self, fs, p) ==
    LET l == JoblibLoad(fs, p)
    IN  IF l.ok
        THEN {Ends([self EXCEPT !.model = l.obj, !.is_trained = TRUE], fs, TRUE, NoException)}
        ELSE {Ends([self EXCEPT !.is_trained = FALSE], fs, FALSE, l.exc)}

\* Lines 198-207, load_model: self.model = joblib.load(filepath), whose exception
\* ends the call, then self.is_trained = True.
load_model(self, fs, p) ==
    LET l == JoblibLoad(fs, p)
    IN  IF l.ok
        THEN {Ends([self EXCEPT !.model = l.obj, !.is_trained = TRUE], fs, TRUE, NoException)}
        ELSE {Ends(self, fs, FALSE, l.exc)}

\* Lines 61-98, create_features: a new dataframe is worked on (df.copy()); a
\* dataframe without the columns 'data_venda' and 'receita' is a KeyError.
create_features(self, fs, d) ==
    {Ends(self, fs, TRUE, NoException),
     Ends(self, fs, FALSE, Exc("KeyError", "'data_venda'"))}

\* Lines 132-161, evaluate: metrics of y_true against y_pred, or the ValueError of
\* the metric functions for arrays that do not match.
evaluate(self, fs, d) ==
    {Ends(self, fs, TRUE, NoException),
     Ends(self, fs, FALSE, Exc("ValueError", "inconsistent numbers of samples"))}

\* Lines 163-183, get_feature_importance: coef_ for model_type 'linear',
\* feature_importances_ otherwise, read from self.model whether or not is_trained;
\* the attribute exists on a fitted estimator of the matching kind.
get_feature_importance(self, fs, d) ==
    LET attr == IF self.model_type = "linear" THEN "coef_" ELSE "feature_importances_"
        has == /\ IsEstimator(self.model)
               /\ self.model.fitted # 0
               /\ (self.model.cls = "LinearRegression") <=> (attr = "coef_")
    IN  IF has THEN {Ends(self, fs, TRUE, NoException)}
        ELSE {Ends(self, fs, FALSE, Exc("AttributeError", attr))}

\* No call has been made.
NoCall == [op |-> "none", ok |-> TRUE, exc |-> NoException]

\* There is no forecaster.
NoForecaster ==
    /\ model_type = ""
    /\ model = NoModel
    /\ is_trained = FALSE
    /\ files = [p \in Paths |-> Absent]
    /\ fcall = NoCall

\* After ETLPipeline(config_path): the orchestrator, idle, or no orchestrator and
\* the exception the constructor raised.
Init ==
    /\ config_file \in ConfigFiles
    /\ config = ETLPipeline(config_file).config
    /\ execution_log = ETLPipeline(config_file).execution_log
    /\ top = IF ETLPipeline(config_file).ok THEN "none" ELSE "ETLPipeline"
    /\ pc = IF ETLPipeline(config_file).ok THEN "idle" ELSE "no_instance"
    /\ raised = ETLPipeline(config_file).exc
    /\ ncalls = 0
    /\ run_frame = EmptyRunFrame
    /\ ret = RetNone
    /\ calls = <<>>
    /\ phases = <<>>
    /\ logged = <<>>
    /\ reads = <<>>
    /\ held = RetNone
    /\ database = 0
    /\ NoForecaster

(***************************************************************************)
(* Log entries                                                             *)
(***************************************************************************)
\* datetime.now(): the wall-clock reading, which no operation reads back.
Now == "datetime.now()"

\* {'fase': ..., 'status': 'success', 'timestamp': ..., 'records': n}
SuccessEntry(fase, n) ==
    [fase |-> fase, status |-> "success", timestamp |-> Now, records |-> n]

\* Mutant: the error entry carries a record count in place of the error text.
ErrorEntry_WithRecords(fase, e) ==
    [fase |-> fase, status |-> "error", timestamp |-> Now, records |-> 0]

\* {'fase': ..., 'status': 'error', 'timestamp': ..., 'error': str(e)}
ErrorEntry(fase, e) ==
    [fase |-> fase, status |-> "error", timestamp |-> Now, error |-> e.msg]

\* Mutant: the log is replaced by a list holding the new entry.
LogAppend_Reset(log, entry) == <<entry>>

\* self.execution_log.append(entry)
LogAppend(log, entry) == Append(log, entry)

(***************************************************************************)
(* The body of a phase method, statement by statement.  A body state holds *)
(* the method's locals, the collaborator calls made so far, and, once a    *)
(* call has raised (ok = FALSE), the exception on its way to the except    *)
(* clause: the statements after it are skipped.                            *)
(***************************************************************************)
\* One collaborator call: the phase it was made in, the class or method called,
\* the source it was made for, its dataframe and string arguments, what it did.
CallRec(fase, op, src, d, param, o) ==
    [fase |-> fase, op |-> op, src |-> src, df |-> d, param |-> param,
     ok |-> o.ok, out |-> o.df, n |-> o.n, exc |-> o.exc]

\* The try block is entered: extracted_data = {} (line 66), transformed_data = {}
\* (line 112).  `result` is that dict.
Started ==
    [calls |-> <<>>, ok |-> TRUE, exc |-> NoException, result |-> <<>>,
     source |-> "", df |-> {}, total_records |-> 0]

\* A collaborator call raised e.
Failed(st, cs, e) == [st EXCEPT !.calls = @ \o cs, !.ok = FALSE, !.exc = e]

\* `if id in sources:` instantiate the extractor with its configuration value,
\* call extract() and keep the dataframe under id.  Lines 69-73 and 75-79.
ExtractSource(st, cfg, sources, id, key, cls) ==
    IF ~st.ok \/ id \notin sources THEN {st}
    ELSE LET param == Get(cfg, key)
             init == ExtractorInit(cls, param)
             c1 == CallRec("extract", cls, id, {}, param, init)
         IN  IF ~init.ok THEN {Failed(st, <<c1>>, init.exc)}
             ELSE {LET c2 == CallRec("extract", cls \o ".extract", id, {}, "", o)
                   IN  IF o.ok
                       THEN [st EXCEPT !.calls = @ \o <<c1, c2>>,
                                       !.result = DictSet(@, id, o.df)]
                       ELSE Failed(st, <<c1, c2>>, o.exc)
                   : o \in ExtractorExtract(cls)}

\* Mutant: only the csv source is looked at.
ExtractBody_CsvOnly(cfg, sources) ==
    ExtractSource(Started, cfg, sources, "csv", "csv_path", "CSVExtractor")

\* Lines 68-79: the try block of extract.
ExtractBody(cfg, sources) ==
    UNION {ExtractSource(s, cfg, sources, "api", "api_url", "APIExtractor")
           : s \in ExtractSource(Started, cfg, sources, "csv", "csv_path", "CSVExtractor")}

\* Mutant: the cleaner is called although an earlier call of the phase raised.
TransformClean_KeepsGoing(st, rules) ==
    IF ~In("clean", rules) THEN {st}
    ELSE {LET c == CallRec("transform", "DataCleaner.clean", st.source, st.df, "", o)
          IN  IF o.ok THEN [st EXCEPT !.calls = Append(@, c), !.df = o.df]
              ELSE Failed(st, <<c>>, o.exc)
          : o \in CleanerClean(st.df)}

\* Lines 118-122: `if 'clean' in rules: df = DataCleaner().clean(df)`.
TransformClean(st, rules) ==
    IF ~st.ok \/ ~In("clean", rules) THEN {st}
    ELSE {LET c == CallRec("transform", "DataCleaner.clean", st.source, st.df, "", o)
          IN  IF o.ok THEN [st EXCEPT !.calls = Append(@, c), !.df = o.df]
              ELSE Failed(st, <<c>>, o.exc)
          : o \in CleanerClean(st.df)}

\* Mutant: the validator runs only on cleaned records.
TransformValidate_NeedsClean(st, rules) ==
    IF ~st.ok \/ ~In("validate", rules) \/ ~In("clean", rules) THEN {st}
    ELSE {LET c == CallRec("transform", "DataValidator.validate", st.source, st.df, "", o)
          IN  IF o.ok THEN [st EXCEPT !.calls = Append(@, c), !.df = o.df]
              ELSE Failed(st, <<c>>, o.exc)
          : o \in ValidatorValidate(st.df)}

\* Lines 124-128: `if 'validate' in rules: df, validation_report =
\* DataValidator().validate(df)`.
TransformValidate(st, rules) ==
    IF ~st.ok \/ ~In("validate", rules) THEN {st}
    ELSE {LET c == CallRec("transform", "DataValidator.validate", st.source, st.df, "", o)
          IN  IF o.ok THEN [st EXCEPT !.calls = Append(@, c), !.df = o.df]
              ELSE Failed(st, <<c>>, o.exc)
          : o \in ValidatorValidate(st.df)}

\* Line 130: `transformed_data[source] = df`.
TransformStore(st) ==
    IF ~st.ok THEN st ELSE [st EXCEPT !.result = DictSet(@, st.source, st.df)]

\* The place of x in a list that holds it.
IndexOf(x, list) == CHOOSE i \in 1..Len(list) : list[i] = x

\* Mutant: the rules are applied in the order the list names them.
TransformItem_ListOrder(st, item, rules) ==
    LET s0 == IF st.ok THEN [st EXCEPT !.source = item[1], !.df = item[2]] ELSE st
        validate_first ==
            /\ In("clean", rules)
            /\ In("validate", rules)
            /\ IndexOf("validate", rules) < IndexOf("clean", rules)
    IN  IF validate_first
        THEN {TransformStore(s2) :
                s2 \in UNION {TransformClean(s1, rules) : s1 \in TransformValidate(s0, rules)}}
        ELSE {TransformStore(s2) :
                s2 \in UNION {TransformValidate(s1, rules) : s1 \in TransformClean(s0, rules)}}

\* Lines 115-130: one pass of `for source, df in data.items():`.
TransformItem(st, item, rules) ==
    LET s0 == IF st.ok THEN [st EXCEPT !.source = item[1], !.df = item[2]] ELSE st
    IN  {TransformStore(s2) :
            s2 \in UNION {TransformValidate(s1, rules) : s1 \in TransformClean(s0, rules)}}

RECURSIVE TransformLoop(_, _, _)
\* Lines 115-130: the loop over the items left.
TransformLoop(sts, items, rules) ==
    IF items = <<>> THEN sts
    ELSE TransformLoop(UNION {TransformItem(s, Head(items), rules) : s \in sts},
                       Tail(items), rules)

\* Lines 114-130: the try block of transform.
TransformBody(data, rules) == TransformLoop({Started}, data, rules)

\* Mutant: the database block is read with .get, so a loader is made without it.
LoadInit_UsesGet(cfg) ==
    {LET c == CallRec("load", "DatabaseLoader", "", {}, Get(cfg, "database"), o)
     IN  IF o.ok THEN [Started EXCEPT !.calls = <<c>>] ELSE Failed(Started, <<c>>, o.exc)
     : o \in LoaderInit(Get(cfg, "database"))}

\* Lines 162-164: `loader = DatabaseLoader(self.config['database'])`, which is a
\* KeyError without that key, and `total_records = 0`.
LoadInit(cfg) ==
    IF "database" \notin DOMAIN cfg THEN {Failed(Started, <<>>, KeyErrorDatabase)}
    ELSE {LET c == CallRec("load", "DatabaseLoader", "", {}, cfg["database"], o)
          IN  IF o.ok THEN [Started EXCEPT !.calls = <<c>>] ELSE Failed(Started, <<c>>, o.exc)
          : o \in LoaderInit(cfg["database"])}

\* Mutant: the loader is called without the mode, which leaves it its default.
LoadItem_DefaultMode(st, item, mode) ==
    IF ~st.ok THEN {st}
    ELSE {LET c == CallRec("load", "DatabaseLoader.load", item[1], item[2], "incremental", o)
          IN  IF o.ok
              THEN [st EXCEPT !.calls = Append(@, c), !.source = item[1],
                              !.df = item[2], !.total_records = @ + o.n]
              ELSE Failed(st, <<c>>, o.exc)
          : o \in LoaderLoad(item[2], "incremental")}

\* Mutant: the total is overwritten with the count of the source just loaded.
LoadItem_LastCount(st, item, mode) ==
    IF ~st.ok THEN {st}
    ELSE {LET c == CallRec("load", "DatabaseLoader.load", item[1], item[2], mode, o)
          IN  IF o.ok
              THEN [st EXCEPT !.calls = Append(@, c), !.source = item[1],
                              !.df = item[2], !.total_records = o.n]
              ELSE Failed(st, <<c>>, o.exc)
          : o \in LoaderLoad(item[2], mode)}

\* Lines 165-169: one pass of `for source, df in data.items(): records_loaded =
\* loader.load(df, mode=mode); total_records += records_loaded`.
LoadItem(st, item, mode) ==
    IF ~st.ok THEN {st}
    ELSE {LET c == CallRec("load", "DatabaseLoader.load", item[1], item[2], mode, o)
          IN  IF o.ok
              THEN [st EXCEPT !.calls = Append(@, c), !.source = item[1],
                              !.df = item[2], !.total_records = @ + o.n]
              ELSE Failed(st, <<c>>, o.exc)
          : o \in LoaderLoad(item[2], mode)}

RECURSIVE LoadLoop(_, _, _)
\* Lines 165-169: the loop over the items left.
LoadLoop(sts, items, mode) ==
    IF items = <<>> THEN sts
    ELSE LoadLoop(UNION {LoadItem(s, Head(items), mode) : s \in sts}, Tail(items), mode)

\* Mutant: with no source in the data, load makes no loader and reads no database
\* block.
LoadBody_SkipsEmpty(cfg, data, mode) ==
    IF data = <<>> THEN {Started} ELSE LoadLoop(LoadInit(cfg), data, mode)

\* Lines 161-171: the try block of load.
LoadBody(cfg, data, mode) == LoadLoop(LoadInit(cfg), data, mode)

(***************************************************************************)
(* The phase methods.  Each gives the outcomes of one call: the entry it   *)
(* appends to the log, whether it returns (ok) and what, or the exception  *)
(* it raises, and the collaborator calls it made.                          *)
(***************************************************************************)
\* The try block ended without an exception: the success entry is appended and the
\* method returns.  Lines 81-88, 132-139, 173-178.
Succeeds(fase, n, value, cs) ==
    [fase |-> fase, entry |-> SuccessEntry(fase, n), ok |-> TRUE,
     value |-> value, exc |-> NoException, calls |-> cs]

\* Mutant: the except clause appends a success entry.
Except_LogsSuccess(fase, e, cs) ==
    [fase |-> fase, entry |-> SuccessEntry(fase, 0), ok |-> FALSE,
     value |-> <<>>, exc |-> e, calls |-> cs]

\* The error kinds of the phases, as the specification names them.
PhaseErrorKind(fase) == IF fase = "extract" THEN "ExtractError"
                        ELSE IF fase = "transform" THEN "TransformError"
                        ELSE "LoadError"

\* Mutant: the except clause raises an error of the phase's kind in place of the
\* exception it caught.
Except_Wraps(fase, e, cs) ==
    [fase |-> fase, entry |-> ErrorEntry(fase, e), ok |-> FALSE,
     value |-> <<>>, exc |-> Exc(PhaseErrorKind(fase), e.msg), calls |-> cs]

\* The except clause: the error entry is appended and the exception is raised
\* again.  Lines 90-98, 141-149, 180-188.
Except(fase, e, cs) ==
    [fase |-> fase, entry |-> ErrorEntry(fase, e), ok |-> FALSE,
     value |-> <<>>, exc |-> e, calls |-> cs]

\* extract(self, sources): lines 55-98.
extract(cfg, sources) ==
    {IF st.ok THEN Succeeds("extract", SumLen(st.result), st.result, st.calls)
     ELSE Except("extract", st.exc, st.calls)
     : st \in ExtractBody(cfg, sources)}

\* transform(self, data, rules): lines 100-149.
transform(data, rules) ==
    {IF st.ok THEN Succeeds("transform", SumLen(st.result), st.result, st.calls)
     ELSE Except("transform", st.exc, st.calls)
     : st \in TransformBody(data, rules)}

\* Mutant: load appends its success entry under the phase name of transform.
load_LogsAsTransform(cfg, data, mode) ==
    {IF st.ok THEN Succeeds("transform", st.total_records, <<>>, st.calls)
     ELSE Except("load", st.exc, st.calls)
     : st \in LoadBody(cfg, data, mode)}

\* Mutant: the except clause of load puts the records loaded so far in its entry.
load_LogsPartialCount(cfg, data, mode) ==
    {IF st.ok THEN Succeeds("load", st.total_records, <<>>, st.calls)
     ELSE [Except("load", st.exc, st.calls) EXCEPT
              !.entry = [fase |-> "load", status |-> "error", timestamp |-> Now,
                         error |-> st.exc.msg, records |-> st.total_records]]
     : st \in LoadBody(cfg, data, mode)}

\* load(self, data, mode): lines 151-188.  It returns None.
load(cfg, data, mode) ==
    {IF st.ok THEN Succeeds("load", st.total_records, <<>>, st.calls)
     ELSE Except("load", st.exc, st.calls)
     : st \in LoadBody(cfg, data, mode)}

(***************************************************************************)
(* Actions                                                                 *)
(***************************************************************************)
\* History: one invocation of extract, transform or load, with its arguments, the
\* log it found, whether it returned (ok) and what, or what it raised.
PhaseRec(o, S, R, m, d) ==
    [fase |-> o.fase, sources |-> S, rules |-> R, mode |-> m, data |-> d,
     log_before |-> execution_log, db_before |-> database,
     ok |-> o.ok, result |-> o.value, exc |-> o.exc]

RECURSIVE Written(_)
\* The records the loader wrote in a sequence of collaborator calls: the counts its
\* load() calls returned.  A call that raised, and whatever came after a write,
\* takes nothing back.
Written(cs) ==
    IF cs = <<>> THEN 0
    ELSE (IF Head(cs).op = "DatabaseLoader.load" /\ Head(cs).ok THEN Head(cs).n ELSE 0)
             + Written(Tail(cs))

\* A phase call with outcome o has run: the log and the histories after it.
PhaseRan(o, S, R, m, d) ==
    /\ execution_log' = LogAppend(execution_log, o.entry)
    /\ calls' = calls \o o.calls
    /\ phases' = Append(phases, PhaseRec(o, S, R, m, d))
    /\ reads' = <<>>
    /\ database' = database + Written(o.calls)

\* The caller's call of a phase method ends: with the value, or with the exception.
PhaseToCaller(o) ==
    /\ pc' = "returned"
    /\ ret' = IF o.ok /\ o.fase # "load" THEN RetDict(o.value) ELSE RetNone
    /\ raised' = o.exc

\* The caller calls extract(sources).
call_extract(S) ==
    /\ pc = "idle"
    /\ ncalls < MaxCalls
    /\ top' = "extract"
    /\ ncalls' = ncalls + 1
    /\ \E o \in extract(config, S) :
          /\ PhaseRan(o, S, <<>>, "", <<>>)
          /\ PhaseToCaller(o)
    /\ UNCHANGED <<config, run_frame, logged, held, config_file, fvars>>

\* The caller calls transform(data, rules).
call_transform(d, R) ==
    /\ pc = "idle"
    /\ ncalls < MaxCalls
    /\ top' = "transform"
    /\ ncalls' = ncalls + 1
    /\ \E o \in transform(d, R) :
          /\ PhaseRan(o, {}, R, "", d)
          /\ PhaseToCaller(o)
    /\ UNCHANGED <<config, run_frame, logged, held, config_file, fvars>>

\* Mutant: load fills in a missing database block, with
\* self.config.setdefault('database', ...), before it makes the loader.
call_load_SetsDefault(d, m) ==
    /\ pc = "idle"
    /\ ncalls < MaxCalls
    /\ top' = "load"
    /\ ncalls' = ncalls + 1
    /\ config' = [k \in DOMAIN config \cup {"database"} |->
                     IF k \in DOMAIN config THEN config[k] ELSE "default"]
    /\ \E o \in load(config', d, m) :
          /\ PhaseRan(o, {}, <<>>, m, d)
          /\ PhaseToCaller(o)
    /\ UNCHANGED <<run_frame, logged, held, config_file, fvars>>

\* The caller calls load(data, mode).
call_load(d, m) ==
    /\ pc = "idle"
    /\ ncalls < MaxCalls
    /\ top' = "load"
    /\ ncalls' = ncalls + 1
    /\ \E o \in load(config, d, m) :
          /\ PhaseRan(o, {}, <<>>, m, d)
          /\ PhaseToCaller(o)
    /\ UNCHANGED <<config, run_frame, logged, held, config_file, fvars>>

\* Mutant: run's except clause logs the failure and returns.
RunExcept_Swallows(e) ==
    /\ logged' = Append(logged, "failed")
    /\ pc' = "returned"
    /\ ret' = RetNone
    /\ raised' = NoException
    /\ run_frame' = EmptyRunFrame

\* Mutant: the duration is computed and logged in the except clause too.
RunExcept_LogsDuration(e) ==
    /\ logged' = logged \o <<"failed", "duration">>
    /\ pc' = "returned"
    /\ ret' = RetNone
    /\ raised' = e
    /\ run_frame' = EmptyRunFrame

\* Lines 222-226: a phase raised inside run's try block; run's except clause logs
\* the failure and raises the exception again.
RunExcept(e) ==
    /\ logged' = Append(logged, "failed")
    /\ pc' = "returned"
    /\ ret' = RetNone
    /\ raised' = e
    /\ run_frame' = EmptyRunFrame

\* The caller calls run(extract_sources, transform_rules, load_mode): lines 199-206,
\* `extracted_data = self.extract(extract_sources)`.
call_run(S, R, m) ==
    /\ pc = "idle"
    /\ ncalls < MaxCalls
    /\ top' = "run"
    /\ ncalls' = ncalls + 1
    /\ \E o \in extract(config, S) :
          /\ PhaseRan(o, S, <<>>, "", <<>>)
          /\ IF o.ok
             THEN /\ run_frame' = [EmptyRunFrame EXCEPT
                         !.extract_sources = S, !.transform_rules = R,
                         !.load_mode = m, !.extracted_data = o.value]
                  /\ logged' = <<"start">>
                  /\ pc' = "run_transform"
                  /\ UNCHANGED <<ret, raised>>
             ELSE /\ logged' = <<"start", "failed">>
                  /\ pc' = "returned"
                  /\ ret' = RetNone
                  /\ raised' = o.exc
                  /\ run_frame' = EmptyRunFrame
    /\ UNCHANGED <<config, held, config_file, fvars>>

\* Line 209: `transformed_data = self.transform(extracted_data, transform_rules)`.
run_transform ==
    /\ pc = "run_transform"
    /\ \E o \in transform(run_frame.extracted_data, run_frame.transform_rules) :
          /\ PhaseRan(o, {}, run_frame.transform_rules, "", run_frame.extracted_data)
          /\ IF o.ok
             THEN /\ run_frame' = [run_frame EXCEPT !.transformed_data = o.value]
                  /\ pc' = "run_load"
                  /\ UNCHANGED <<ret, raised, logged>>
             ELSE RunExcept(o.exc)
    /\ UNCHANGED <<config, top, ncalls, held, config_file, fvars>>

\* Mutant: load is handed the extracted data, not the transformed data.
run_load_ExtractedData ==
    /\ pc = "run_load"
    /\ \E o \in load(config, run_frame.extracted_data, run_frame.load_mode) :
          /\ PhaseRan(o, {}, <<>>, run_frame.load_mode, run_frame.extracted_data)
          /\ IF o.ok
             THEN /\ logged' = logged \o <<"success", "duration">>
                  /\ pc' = "returned"
                  /\ ret' = RetNone
                  /\ raised' = NoException
                  /\ run_frame' = EmptyRunFrame
             ELSE RunExcept(o.exc)
    /\ UNCHANGED <<config, top, ncalls, held, config_file, fvars>>

\* Lines 212-220: `self.load(transformed_data, load_mode)`; then the duration is
\* computed and logged, and run returns None.
run_load ==
    /\ pc = "run_load"
    /\ \E o \in load(config, run_frame.transformed_data, run_frame.load_mode) :
          /\ PhaseRan(o, {}, <<>>, run_frame.load_mode, run_frame.transformed_data)
          /\ IF o.ok
             THEN /\ logged' = logged \o <<"success", "duration">>
                  /\ pc' = "returned"
                  /\ ret' = RetNone
                  /\ raised' = NoException
                  /\ run_frame' = EmptyRunFrame
             ELSE RunExcept(o.exc)
    /\ UNCHANGED <<config, top, ncalls, held, config_file, fvars>>

\* History: one call of get_execution_log, the log it found and what it returned.
ReadRec(value) == [log_before |-> execution_log, value |-> value]

\* Mutant: the entries are handed over and the log starts again empty.
get_execution_log_Drains ==
    /\ pc = "idle"
    /\ Len(reads) < MaxReads
    /\ top' = "get_execution_log"
    /\ ret' = RetList(execution_log)
    /\ execution_log' = <<>>
    /\ raised' = NoException
    /\ pc' = "returned"
    /\ reads' = Append(reads, ReadRec(execution_log))
    /\ UNCHANGED <<config, ncalls, run_frame, calls, phases, logged, held,
                   config_file, database, fvars>>

\* Lines 228-230: `return self.execution_log`.
get_execution_log ==
    /\ pc = "idle"
    /\ Len(reads) < MaxReads
    /\ top' = "get_execution_log"
    /\ ret' = RetList(execution_log)
    /\ raised' = NoException
    /\ pc' = "returned"
    /\ reads' = Append(reads, ReadRec(execution_log))
    /\ UNCHANGED <<config, execution_log, ncalls, run_frame, calls, phases, logged, held,
                   config_file, database, fvars>>

\* The call is over; the caller goes on to its next statement.
caller_resumes ==
    /\ pc = "returned"
    /\ pc' = "idle"
    /\ top' = "none"
    /\ ret' = RetNone
    /\ raised' = NoException
    /\ calls' = <<>>
    /\ phases' = <<>>
    /\ logged' = <<>>
    /\ UNCHANGED <<config, execution_log, ncalls, run_frame, reads, held, config_file,
                   database, fvars>>

SourceInputs == SUBSET SourceIds

\* The rule lists a caller passes: clean and validate, each present or not, in
\* either order, alone or behind an identifier that is no rule.
RuleInputs ==
    ListsOver({"clean", "validate"})
        \cup {<<"enrich">> \o l : l \in ListsOver({"clean", "validate"})}

Next ==
    \/ \E S \in SourceInputs : call_extract(S)
    \/ \E d \in DataInputs, R \in RuleInputs : call_transform(d, R)
    \/ \E d \in DataInputs, m \in Modes : call_load(d, m)
    \/ \E S \in SourceInputs, R \in RuleInputs, m \in Modes : call_run(S, R, m)
    \/ run_transform
    \/ run_load
    \/ get_execution_log
    \/ caller_resumes

Spec == Init /\ [][Next]_vars

(***************************************************************************)
(* A caller that keeps the list get_execution_log handed over              *)
(***************************************************************************)
\* What a list handed over by get_execution_log holds now: the log itself when the
\* list is the object self.execution_log names, its own entries otherwise.
Deref(r) == IF r.obj = "self.execution_log" THEN execution_log ELSE r.val

\* A variable bound to the returned list: a name for the object self.execution_log
\* names, which holds no entries of its own, or a list with its own entries.
Bound(r) == IF r.obj = "self.execution_log" THEN [r EXCEPT !.val = <<>>] ELSE r

\* `log = pipeline.get_execution_log()`: the caller binds the returned list to a
\* variable of its own and goes on.
caller_keeps_list ==
    /\ pc = "returned"
    /\ top = "get_execution_log"
    /\ held' = Bound(ret)
    /\ pc' = "idle"
    /\ top' = "none"
    /\ ret' = RetNone
    /\ raised' = NoException
    /\ calls' = <<>>
    /\ phases' = <<>>
    /\ logged' = <<>>
    /\ UNCHANGED <<config, execution_log, ncalls, run_frame, reads, config_file, database,
                   fvars>>

\* The caller changes the list it kept, with log.clear(): the object is emptied,
\* whoever else names it.
caller_changes_list ==
    /\ pc = "idle"
    /\ held.kind = "list"
    /\ Deref(held) # <<>>
    /\ IF held.obj = "self.execution_log"
       THEN execution_log' = <<>> /\ UNCHANGED held
       ELSE held' = [held EXCEPT !.val = <<>>] /\ UNCHANGED execution_log
    /\ UNCHANGED <<config, top, pc, ncalls, run_frame, ret, raised,
                   calls, phases, logged, reads, config_file, database, fvars>>

NextCaller ==
    \/ Next
    \/ caller_keeps_list
    \/ caller_changes_list

SpecCaller == Init /\ [][NextCaller]_vars

(***************************************************************************)
(* One SalesForecaster and its caller                                      *)
(***************************************************************************)
\* There is no orchestrator.
NoPipeline ==
    /\ config_file = [kind |-> "missing", doc |-> NoConfig]
    /\ config = NoConfig
    /\ execution_log = <<>>
    /\ top = "none"
    /\ pc = "no_instance"
    /\ raised = NoException
    /\ ncalls = 0
    /\ run_frame = EmptyRunFrame
    /\ ret = RetNone
    /\ calls = <<>>
    /\ phases = <<>>
    /\ logged = <<>>
    /\ reads = <<>>
    /\ held = RetNone
    /\ database = 0

\* After SalesForecaster(model_type): the forecaster, or none and the ValueError of
\* the constructor.
InitForecaster ==
    /\ NoPipeline
    /\ files \in InitialFiles
    /\ \E t \in ModelTypeInputs :
          /\ model_type = SalesForecaster(t).self.model_type
          /\ model = SalesForecaster(t).self.model
          /\ is_trained = SalesForecaster(t).self.is_trained
          /\ fcall = [op |-> "__init__", ok |-> SalesForecaster(t).ok,
                      exc |-> SalesForecaster(t).exc]

ForecasterExists == model # NoModel

\* self
Self == [model_type |-> model_type, model |-> model, is_trained |-> is_trained]

\* The method op has ended as o: the attributes and the files it leaves, and what
\* the caller sees of it.
MethodRan(op, o) ==
    /\ model_type' = o.self.model_type
    /\ model' = o.self.model
    /\ is_trained' = o.self.is_trained
    /\ files' = o.files
    /\ fcall' = [op |-> op, ok |-> o.ok, exc |-> o.exc]
    /\ UNCHANGED pvars

call_train(d) ==
    /\ ForecasterExists
    /\ \E o \in train(Self, files, d) : MethodRan("train", o)

call_predict(d) ==
    /\ ForecasterExists
    /\ \E o \in predict(Self, files, d) : MethodRan("predict", o)

call_save_model(p) ==
    /\ ForecasterExists
    /\ \E o \in save_model(Self, files, p) : MethodRan("save_model", o)

call_load_model(p) ==
    /\ ForecasterExists
    /\ \E o \in load_model(Self, files, p) : MethodRan("load_model", o)

call_create_features(d) ==
    /\ ForecasterExists
    /\ \E o \in create_features(Self, files, d) : MethodRan("create_features", o)

call_evaluate(d) ==
    /\ ForecasterExists
    /\ \E o \in evaluate(Self, files, d) : MethodRan("evaluate", o)

call_get_feature_importance(d) ==
    /\ ForecasterExists
    /\ \E o \in get_feature_importance(Self, files, d) :
          MethodRan("get_feature_importance", o)

NextForecaster ==
    \/ \E d \in Data : call_train(d)
    \/ \E d \in Data : call_predict(d)
    \/ \E p \in Paths : call_save_model(p)
    \/ \E p \in Paths : call_load_model(p)
    \/ \E d \in Data : call_create_features(d)
    \/ \E d \in Data : call_evaluate(d)
    \/ \E d \in Data : call_get_feature_importance(d)

SpecForecaster == InitForecaster /\ [][NextForecaster]_vars

(***************************************************************************)
(* Reading the histories                                                   *)
(***************************************************************************)
IsPrefix(a, b) == Len(a) <= Len(b) /\ SubSeq(b, 1, Len(a)) = a

Last(q) == q[Len(q)]

\* The log as phase invocation i of the current call left it.
LogAfter(i) == IF i < Len(phases) THEN phases[i + 1].log_before ELSE execution_log

\* The entries phase invocation i appended.
Appended(i) == SubSeq(LogAfter(i), Len(phases[i].log_before) + 1, Len(LogAfter(i)))

\* The collaborator calls made in the invocation of phase `fase` of the current call.
CallsOf(fase) == SelectSeq(calls, LAMBDA c : c.fase = fase)

RunReturned == top = "run" /\ pc = "returned"

RunFailed == RunReturned /\ raised # NoException

RunSucceeded == RunReturned /\ raised = NoException

\* The entries the current call has appended.
CallEntries ==
    IF phases = <<>> THEN <<>>
    ELSE SubSeq(execution_log, Len(phases[1].log_before) + 1, Len(execution_log))

PhasesAfter(P) == IF P = "extract" THEN {"transform", "load"}
                  ELSE IF P = "transform" THEN {"load"}
                  ELSE {}

\* In log: exactly one entry is of phase P, its status is 'error', and no entry is
\* of a phase after P.
OneErrorNothingAfter(log, P) ==
    /\ Cardinality({i \in 1..Len(log) : log[i].fase = P}) = 1
    /\ \A i \in 1..Len(log) :
          /\ log[i].fase = P => log[i].status = "error"
          /\ log[i].fase \notin PhasesAfter(P)

\* log is three success entries, of extract, transform and load in that order,
\* each with a record count that is not negative.
ThreeSuccesses(log) ==
    /\ Len(log) = 3
    /\ \A i \in 1..Len(log) :
          /\ log[i].fase = <<"extract", "transform", "load">>[i]
          /\ log[i].status = "success"
          /\ "records" \in DOMAIN log[i]
          /\ log[i].records >= 0

(***************************************************************************)
(* C1                                                                      *)
(***************************************************************************)
\* C1, as stated: when run has failed at phase P, the execution log holds exactly
\* one entry of phase P, with status 'error', and no entry of a phase after P.
C1_WholeLog ==
    RunFailed =>
        \A i \in 1..Len(phases) :
            ~phases[i].ok => OneErrorNothingAfter(execution_log, phases[i].fase)

\* C1, amended: when run has failed at phase P, the entries that run appended to the
\* execution log hold exactly one entry of phase P, with status 'error', and no
\* entry of a phase after P (entries of earlier calls on the instance stay in the log).
C1_RunEntries ==
    RunFailed =>
        /\ \E i \in 1..Len(phases) : ~phases[i].ok
        /\ \A i \in 1..Len(phases) :
              ~phases[i].ok => OneErrorNothingAfter(CallEntries, phases[i].fase)

\* A run failed at transform on an instance whose log already held entries.
C1_Witness ==
    /\ RunFailed
    /\ Len(phases) = 2
    /\ ~phases[2].ok
    /\ phases[1].log_before # <<>>

(***************************************************************************)
(* C2                                                                      *)
(***************************************************************************)
\* C2, as stated: after a successful run the execution log holds exactly three
\* entries, all 'success', of extract, transform, load in that order, each with a
\* record count that is not negative.
C2_WholeLog == RunSucceeded => ThreeSuccesses(execution_log)

\* C2, amended: a successful run appends exactly three entries to the execution log,
\* all 'success', of extract, transform, load in that order, each with a record
\* count that is not negative.
C2_RunEntries == RunSucceeded => ThreeSuccesses(CallEntries)

\* A run succeeded, with records loaded, on an instance whose log already held entries.
C2_Witness ==
    /\ RunSucceeded
    /\ phases[1].log_before # <<>>
    /\ Last(execution_log).records > 0

(***************************************************************************)
(* C3                                                                      *)
(***************************************************************************)
\* C3: every call of extract, transform or load, returning or raising, appends
\* exactly one entry to the execution log; that entry has a record count and no
\* error text when its status is 'success', an error text and no record count when
\* its status is 'error'.
C3_OneEntryPerPhaseCall ==
    \A i \in 1..Len(phases) :
        /\ IsPrefix(phases[i].log_before, LogAfter(i))
        /\ Len(Appended(i)) = 1
        /\ LET e == Appended(i)[1] IN
              /\ e.fase = phases[i].fase
              /\ e.status = (IF phases[i].ok THEN "success" ELSE "error")
              /\ e.status = "success" =>
                    "records" \in DOMAIN e /\ "error" \notin DOMAIN e
              /\ e.status = "error" =>
                    "error" \in DOMAIN e /\ "records" \notin DOMAIN e

\* A run in which extract returned and transform raised: both calls have ended.
C3_Witness ==
    /\ top = "run"
    /\ Len(phases) = 2
    /\ phases[1].ok
    /\ ~phases[2].ok
    /\ Len(execution_log) = Len(phases[1].log_before) + 2

CallsFor(cs, op, src) == {k \in 1..Len(cs) : cs[k].op = op /\ cs[k].src = src}

C6_CleanBeforeValidate ==
    \A i \in 1..Len(phases) :
        (/\ phases[i].fase = "transform"
         /\ In("clean", phases[i].rules)
         /\ In("validate", phases[i].rules)) =>
            LET cs == CallsOf("transform") IN
            \A k \in 1..Len(cs) :
                /\ cs[k].op = "DataValidator.validate" =>
                      /\ k > 1
                      /\ cs[k - 1].op = "DataCleaner.clean"
                      /\ cs[k - 1].src = cs[k].src
                      /\ cs[k - 1].ok
                      /\ cs[k].df = cs[k - 1].out
                /\ (cs[k].op = "DataCleaner.clean" /\ cs[k].ok) =>
                      /\ k < Len(cs)
                      /\ cs[k + 1].op = "DataValidator.validate"
                      /\ cs[k + 1].src = cs[k].src

\* transform(data, [validate, clean]): the cleaner dropped a row and the validator
\* was called with the cleaner's output, not with the records that came in.
C6_Witness ==
    /\ phases # <<>>
    /\ Last(phases).fase = "transform"
    /\ Last(phases).rules = <<"validate", "clean">>
    /\ LET cs == CallsOf("transform") IN
       \E k \in 1..Len(cs) :
           /\ cs[k].op = "DataValidator.validate"
           /\ cs[k].df # DictGet(Last(phases).data, cs[k].src)

(***************************************************************************)
(* C7                                                                      *)
(***************************************************************************)
\* C7: a phase in which a collaborator call raised has appended the error entry of
\* its own phase and has raised, never returned; a phase method raises to its
\* caller what it caught, and run has raised to its caller as soon as one of its
\* phases raised.
C7_LogThenRaise ==
    /\ \A i \in 1..Len(phases) :
          LET p == phases[i]
              cs == CallsOf(p.fase)
          IN  (\E k \in 1..Len(cs) : ~cs[k].ok) =>
                  /\ ~p.ok
                  /\ p.exc # NoException
                  /\ Appended(i) = <<ErrorEntry(p.fase, p.exc)>>
    /\ \A i \in 1..Len(phases) :
          ~phases[i].ok =>
              /\ pc = "returned"
              /\ raised = phases[i].exc
              /\ raised # NoException
              /\ ret = RetNone

\* run has raised after the loader failed on a source.
C7_Witness ==
    /\ RunFailed
    /\ Len(phases) = 3
    /\ ~phases[3].ok
    /\ \E k \in 1..Len(calls) : calls[k].op = "DatabaseLoader.load" /\ ~calls[k].ok

(***************************************************************************)
(* C8                                                                      *)
(***************************************************************************)
\* C8: run invokes extract, then transform, then load, at most once each, with its
\* own arguments; transform gets the value extract returned and load the value
\* transform returned; a phase is invoked only after the one before it returned,
\* and run ends after load returned or after the first phase that raised.
C8_RunSequence ==
    top = "run" =>
        /\ Len(phases) >= 1
        /\ IsPrefix([i \in 1..Len(phases) |-> phases[i].fase],
                    <<"extract", "transform", "load">>)
        /\ \A i \in 1..(Len(phases) - 1) : phases[i].ok
        /\ Len(phases) >= 2 => phases[2].data = phases[1].result
        /\ Len(phases) >= 3 => phases[3].data = phases[2].result
        /\ pc = "run_transform" =>
              /\ Len(phases) = 1
              /\ phases[1].ok
              /\ phases[1].sources = run_frame.extract_sources
        /\ pc = "run_load" =>
              /\ Len(phases) = 2
              /\ phases[2].ok
              /\ phases[2].rules = run_frame.transform_rules
        /\ pc = "returned" =>
              IF raised = NoException
              THEN Len(phases) = 3 /\ phases[3].ok
              ELSE ~Last(phases).ok

\* A run has returned after load was handed the rows transform returned.
C8_Witness ==
    /\ RunSucceeded
    /\ Len(phases) = 3
    /\ Len(phases[3].data) = 2
    /\ phases[3].data # phases[2].data
    /\ \E k \in 1..Len(phases[3].data) : phases[3].data[k][2] # {}

(***************************************************************************)
(* C9                                                                      *)
(***************************************************************************)
\* C9: an extract or transform call in which a collaborator call raised has raised
\* itself and handed back no result; the call that raised is the last collaborator
\* call of that phase call (none is made for a remaining source); the phase call
\* appended one entry, an error entry.
C9_FailsAsUnit ==
    \A i \in 1..Len(phases) :
        LET p == phases[i]
            cs == CallsOf(p.fase)
        IN  (/\ p.fase \in {"extract", "transform"}
             /\ \E k \in 1..Len(cs) : ~cs[k].ok) =>
                /\ ~p.ok
                /\ p.result = <<>>
                /\ pc = "returned"
                /\ ret = RetNone
                /\ \A k \in 1..Len(cs) : ~cs[k].ok <=> k = Len(cs)
                /\ Len(Appended(i)) = 1
                /\ \A k \in 1..Len(Appended(i)) : Appended(i)[k].status = "error"

\* transform over two sources: the first source was cleaned and validated, then the
\* cleaner raised on the second one.
C9_Witness ==
    /\ phases # <<>>
    /\ Last(phases).fase = "transform"
    /\ ~Last(phases).ok
    /\ Len(Last(phases).data) = 2
    /\ LET cs == CallsOf("transform") IN
          /\ Len(cs) = 3
          /\ cs[3].src = Last(phases).data[2][1]
          /\ cs[3].op = "DataCleaner.clean"

(***************************************************************************)
(* C10                                                                     *)
(***************************************************************************)
\* C10: the execution log is append-only: every step of extract, transform, load,
\* run and get_execution_log leaves the log it found as a prefix of the log it
\* leaves, so no entry is changed, removed or reordered and the log is never cleared.
C10_AppendOnly == [][IsPrefix(execution_log, execution_log')]_vars

\* A second run has ended on an instance whose log held the three entries of a
\* successful run, and those entries are still there.
C10_Witness ==
    /\ RunReturned
    /\ ncalls = 2
    /\ ThreeSuccesses(phases[1].log_before)
    /\ Len(execution_log) > 3
    /\ IsPrefix(phases[1].log_before, execution_log)

(***************************************************************************)
(* C11                                                                     *)
(***************************************************************************)
\* C11: the list get_execution_log handed to a caller is a snapshot: while the
\* caller keeps it, a call of extract, transform or load (direct or inside run)
\* that appends to the log leaves what the list holds unchanged, and the caller
\* changing the list leaves the orchestrator's log unchanged.
C11_Snapshot ==
    [][/\ (held.kind = "list" /\ held' = held /\ Len(phases') > Len(phases))
              => Deref(held)' = Deref(held)
       /\ caller_changes_list => execution_log' = execution_log]_vars

(***************************************************************************)
(* C12                                                                     *)
(***************************************************************************)
\* C12: the calls of get_execution_log made with no call of extract, transform,
\* load or run between them all returned the same sequence of entries, and the log
\* is still what each of them found: no such call, and nothing done between two of
\* them, changes the log.
C12_ReadIdempotent ==
    \A i \in 1..Len(reads) :
        /\ reads[i].value = reads[1].value
        /\ reads[i].log_before = execution_log
        /\ (top = "get_execution_log" /\ pc = "returned") => ret.val = reads[i].value

\* get_execution_log has returned for the second time in a row on an instance whose
\* log holds the three entries of a successful run.
C12_Witness ==
    /\ top = "get_execution_log"
    /\ pc = "returned"
    /\ Len(reads) = 2
    /\ ThreeSuccesses(reads[1].value)
    /\ ret.val = reads[1].value

(***************************************************************************)
(* C13                                                                     *)
(***************************************************************************)
\* There is an orchestrator: the constructor returned.
Constructed == pc # "no_instance"

\* C13, as stated: the construction fails, with a ConfigError, when the
\* configuration cannot be parsed or lacks a required key, so no orchestrator has
\* an incomplete configuration; after a construction that succeeded the execution
\* log is empty.
C13_ConfigError ==
    /\ (config_file.kind # "mapping" \/ DOMAIN config_file.doc # ConfigKeys)
           => ~Constructed /\ raised.type = "ConfigError"
    /\ Constructed => DOMAIN config = ConfigKeys
    /\ (Constructed /\ ncalls = 0) => execution_log = <<>>

\* C13, amended: the construction fails exactly when the configuration file cannot
\* be opened or parsed, with the exception open() or the YAML parser raised, which
\* is no ConfigError; a file that parses to a mapping gives an orchestrator whose
\* configuration holds the keys of the file, all of them or not; until a phase has
\* been called on it, its execution log is empty.
C13_Construction ==
    /\ Constructed <=> config_file.kind = "mapping"
    /\ ~Constructed =>
          /\ top = "ETLPipeline"
          /\ raised.type = (IF config_file.kind = "missing" THEN "FileNotFoundError"
                            ELSE "YAMLError")
          /\ ncalls = 0
          /\ execution_log = <<>>
    /\ Constructed =>
          /\ top # "ETLPipeline"
          /\ DOMAIN config = DOMAIN config_file.doc
          /\ ncalls = 0 => execution_log = <<>>

\* An orchestrator built from a file without a database block has been handed its
\* still empty log by get_execution_log.
C13_Witness ==
    /\ Constructed
    /\ "database" \notin DOMAIN config
    /\ top = "get_execution_log"
    /\ pc = "returned"
    /\ ncalls = 0
    /\ ret.val = <<>>

(***************************************************************************)
(* C14                                                                     *)
(***************************************************************************)
\* C14, as stated: a phase that failed has raised the error kind of that phase:
\* ExtractError from extract, TransformError from transform, LoadError from load.
C14_PhaseErrorKinds ==
    \A i \in 1..Len(phases) :
        ~phases[i].ok =>
            /\ phases[i].exc.type = PhaseErrorKind(phases[i].fase)
            /\ pc = "returned" => raised.type = PhaseErrorKind(phases[i].fase)

\* The exception raised inside a failed invocation of a phase: the one of the
\* collaborator call that raised, or the KeyError of a configuration without the
\* database block.
RaisedInside(fase) ==
    LET cs == CallsOf(fase)
    IN  IF \E k \in 1..Len(cs) : ~cs[k].ok
        THEN cs[CHOOSE k \in 1..Len(cs) : ~cs[k].ok].exc
        ELSE KeyErrorDatabase

\* C14, amended: a phase that failed has raised the very exception that was raised
\* inside it, type and message unchanged, and the caller of the phase or of run
\* gets that exception; it is no ExtractError, TransformError or LoadError.  The
\* phase is named by the error entry alone, which carries the exception's message.
C14_SameException ==
    \A i \in 1..Len(phases) :
        ~phases[i].ok =>
            /\ phases[i].exc = RaisedInside(phases[i].fase)
            /\ phases[i].exc.type # PhaseErrorKind(phases[i].fase)
            /\ (\A k \in 1..Len(CallsOf(phases[i].fase)) : CallsOf(phases[i].fase)[k].ok)
                   => (phases[i].fase = "load" /\ "database" \notin DOMAIN config)
            /\ pc = "returned" /\ raised = RaisedInside(phases[i].fase)
            /\ Appended(i)[1].fase = phases[i].fase
            /\ Appended(i)[1].error = RaisedInside(phases[i].fase).msg

\* transform has raised to its caller what the validator raised.
C14_Witness ==
    /\ top = "transform"
    /\ pc = "returned"
    /\ raised = Exc("Exception", "validate failed")
    /\ \E k \in 1..Len(calls) : calls[k].op = "DataValidator.validate" /\ ~calls[k].ok

(***************************************************************************)
(* C15                                                                     *)
(***************************************************************************)
\* Phase invocation i made no call of collaborator method op.
NeverCalled(i, op) ==
    \A k \in 1..Len(CallsOf(phases[i].fase)) : CallsOf(phases[i].fase)[k].op # op

\* Phase invocation i failed and appended one entry, the error entry.
EndedInError(i) ==
    /\ ~phases[i].ok
    /\ Len(Appended(i)) = 1
    /\ Appended(i)[1].status = "error"
    /\ Appended(i)[1].fase = phases[i].fase

\* C15: extract with 'csv' requested and no csv_path, extract with 'api' requested
\* and no api_url, and load with no database block end in an error entry and raise,
\* the extractor's extract() or the loader's load() never having been called: the
\* instantiation of the collaborator is what failed (for 'api', unless the csv
\* source failed before it; for load, no loader was made at all).
C15_MissingKeyFailsPhase ==
    \A i \in 1..Len(phases) :
        LET p == phases[i]
            cs == CallsOf(p.fase)
        IN  /\ (p.fase = "extract" /\ "csv" \in p.sources /\ "csv_path" \notin DOMAIN config) =>
                  /\ EndedInError(i)
                  /\ NeverCalled(i, "CSVExtractor.extract")
                  /\ Len(cs) = 1
                  /\ cs[1].op = "CSVExtractor" /\ cs[1].param = None /\ ~cs[1].ok
            /\ (p.fase = "extract" /\ "api" \in p.sources /\ "api_url" \notin DOMAIN config) =>
                  /\ EndedInError(i)
                  /\ NeverCalled(i, "APIExtractor.extract")
                  /\ \/ Last(cs).op = "APIExtractor" /\ Last(cs).param = None /\ ~Last(cs).ok
                     \/ Last(cs).src = "csv" /\ ~Last(cs).ok
            /\ (p.fase = "load" /\ "database" \notin DOMAIN config) =>
                  /\ EndedInError(i)
                  /\ cs = <<>>
                  /\ p.exc = KeyErrorDatabase

\* extract({csv, api}) on a configuration without api_url: the csv source was
\* extracted, then the instantiation of the API extractor failed.
C15_Witness ==
    /\ top = "extract"
    /\ pc = "returned"
    /\ "api_url" \notin DOMAIN config
    /\ raised # NoException
    /\ Len(calls) = 3
    /\ calls[2].op = "CSVExtractor.extract" /\ calls[2].ok
    /\ calls[3].op = "APIExtractor" /\ ~calls[3].ok

(***************************************************************************)
(* C16                                                                     *)
(***************************************************************************)
RECURSIVE SumSeq(_)
\* The sum of a sequence of numbers.
SumSeq(q) == IF q = <<>> THEN 0 ELSE Head(q) + SumSeq(Tail(q))

\* The records transform ended with for the source at place j of its data: what
\* the last collaborator call for that source returned, or the records that came
\* in when no collaborator was called for it.
OutputOf(p, cs, j) ==
    LET mine == CallsFor(cs, "DataCleaner.clean", p.data[j][1])
                    \cup CallsFor(cs, "DataValidator.validate", p.data[j][1])
    IN  IF mine = {} THEN p.data[j][2]
        ELSE cs[CHOOSE k \in mine : \A h \in mine : h <= k].out

\* C16: the record count of a success entry is the total over the sources of that
\* call: of extract, the sizes of the record sets the extractors returned; of
\* transform, the sizes of the record sets each source ended with after clean and
\* validate; of load, the counts the loader returned.
C16_RecordTotals ==
    \A i \in 1..Len(phases) :
        phases[i].ok =>
            LET p == phases[i]
                cs == CallsOf(p.fase)
                n == Appended(i)[1].records
            IN  /\ p.fase = "extract" =>
                      LET got == SelectSeq(cs, LAMBDA c :
                                     c.op \in {"CSVExtractor.extract", "APIExtractor.extract"})
                      IN  n = SumSeq([k \in 1..Len(got) |-> DfLen(got[k].out)])
                /\ p.fase = "transform" =>
                      n = SumSeq([j \in 1..Len(p.data) |-> DfLen(OutputOf(p, cs, j))])
                /\ p.fase = "load" =>
                      LET done == SelectSeq(cs, LAMBDA c : c.op = "DatabaseLoader.load")
                      IN  /\ Len(done) = Len(p.data)
                          /\ n = SumSeq([k \in 1..Len(done) |-> done[k].n])

\* A successful run over two sources: extract counted two records, the cleaner
\* dropped one, transform counted one, and the loader wrote it.
C16_Witness ==
    /\ RunSucceeded
    /\ CallEntries[1].records = 2
    /\ CallEntries[2].records = 1
    /\ CallEntries[3].records = 1

(***************************************************************************)
(* C17                                                                     *)
(***************************************************************************)
\* C17: the duration is logged only by a run that has returned after its three
\* phases returned, and that run logs it once; a direct call of extract, transform
\* or load logs none, and neither does a run in which a phase raised, nor a run that
\* is still under way.
C17_DurationOnSuccess ==
    /\ In("duration", logged) =>
          /\ RunSucceeded
          /\ Len(phases) = 3
          /\ \A i \in 1..Len(phases) : phases[i].ok
    /\ RunSucceeded => Cardinality({k \in 1..Len(logged) : logged[k] = "duration"}) = 1
    /\ RunFailed => ~In("duration", logged) /\ Last(logged) = "failed"
    /\ top \in {"extract", "transform", "load"} => logged = <<>>

\* A run in which extract and transform returned and load raised has logged its
\* failure and no duration.
C17_Witness ==
    /\ RunFailed
    /\ Len(phases) = 3
    /\ phases[1].ok /\ phases[2].ok /\ ~phases[3].ok
    /\ logged = <<"start", "failed">>

(***************************************************************************)
(* C18                                                                     *)
(***************************************************************************)
\* C18: whatever calls of extract, transform, load, run and get_execution_log have
\* been made, and whether they returned or raised, the configuration is the one the
\* constructor loaded from the file.
C18_ConfigUnchanged == config = ETLPipeline(config_file).config

\* After a run and a load that both failed on a configuration without a database
\* block, the configuration still lacks it.
C18_Witness ==
    /\ ncalls = 2
    /\ top = "load"
    /\ pc = "returned"
    /\ raised = KeyErrorDatabase
    /\ Len(execution_log) = 4
    /\ execution_log[3].status = "error"
    /\ "database" \notin DOMAIN config

(***************************************************************************)
(* C19                                                                     *)
(***************************************************************************)
\* What an outcome of load shows of its control flow and of its log entry: the
\* entry, whether it returned, the exception, and which collaborator calls were
\* made, for which source, and which of them raised.
ModeBlind(outcomes) ==
    {[entry |-> o.entry, ok |-> o.ok, exc |-> o.exc,
      path |-> [k \in 1..Len(o.calls) |->
                   <<o.calls[k].op, o.calls[k].src, o.calls[k].df, o.calls[k].ok>>]]
     : o \in outcomes}

\* Every invocation of load made one loader, from the database block, before
\* anything else (none without that block); its calls of loader.load are for the
\* sources of the data in order, one each up to the first that raised, each with the
\* records of that source and the mode load received; and what load can do is the
\* same for every mode.
C19_OneLoaderModeVerbatim ==
    /\ \A i \in 1..Len(phases) :
          phases[i].fase = "load" =>
              LET p == phases[i]
                  cs == CallsOf("load")
                  made == SelectSeq(cs, LAMBDA c : c.op = "DatabaseLoader")
                  loads == SelectSeq(cs, LAMBDA c : c.op = "DatabaseLoader.load")
              IN  /\ Len(made) = (IF "database" \in DOMAIN config THEN 1 ELSE 0)
                  /\ made # <<>> => cs[1] = made[1] /\ made[1].param = config["database"]
                  /\ Len(cs) = Len(made) + Len(loads)
                  /\ Len(loads) <= Len(p.data)
                  /\ \A k \in 1..Len(loads) :
                        /\ loads[k].src = p.data[k][1]
                        /\ loads[k].df = p.data[k][2]
                        /\ loads[k].param = p.mode
                        /\ k < Len(loads) => loads[k].ok
                  /\ p.ok <=> (Len(made) = 1 /\ made[1].ok /\ Len(loads) = Len(p.data)
                               /\ \A k \in 1..Len(loads) : loads[k].ok)
    /\ pc = "idle" =>
          \A d \in DataInputs : \A m1, m2 \in Modes :
              ModeBlind(load(config, d, m1)) = ModeBlind(load(config, d, m2))

\* C19: load makes one loader per call and calls it once per source with the mode
\* exactly as load received it, from the caller or, inside run, run's load_mode
\* argument; the control flow and the log entries of load are the same whatever the
\* mode, 'incremental' or a value that is neither 'incremental' nor 'full'.
C19_ModeVerbatim ==
    /\ []C19_OneLoaderModeVerbatim
    /\ [][(pc = "run_load" /\ pc' = "returned")
              => /\ Last(phases').fase = "load"
                 /\ Last(phases').mode = run_frame.load_mode
                 /\ Last(phases').data = run_frame.transformed_data]_vars

\* A run with load_mode 'merge' has returned after the loader was called with
\* 'merge' for each of the two sources.
C19_Witness ==
    /\ RunSucceeded
    /\ Len(phases[3].data) = 2
    /\ LET cs == CallsOf("load") IN
          /\ Len(cs) = 3
          /\ cs[2].param = "merge" /\ cs[3].param = "merge"
          /\ cs[2].src # cs[3].src

(***************************************************************************)
(* C20                                                                     *)
(***************************************************************************)
\* C20: a load that raised on a source after the loader had written earlier sources
\* of the same call leaves those records in the database (load makes no call after
\* the one that raised, and the database holds what it held before plus what the
\* earlier sources wrote); the one entry load appended is the error entry, which
\* has no record count, so the records written appear nowhere in the log.
C20_PartialLoadUnlogged ==
    \A i \in 1..Len(phases) :
        LET p == phases[i]
            cs == CallsOf("load")
        IN  (p.fase = "load" /\ ~p.ok /\ Written(cs) > 0) =>
                /\ ~Last(cs).ok
                /\ \A k \in 1..(Len(cs) - 1) : cs[k].ok
                /\ database = p.db_before + Written(cs)
                /\ database > p.db_before
                /\ Len(Appended(i)) = 1
                /\ Appended(i)[1].status = "error"
                /\ "records" \notin DOMAIN Appended(i)[1]
                /\ DOMAIN Appended(i)[1] = {"fase", "status", "timestamp", "error"}

\* load over two sources has raised on the second one after the loader wrote the
\* one record of the first.
C20_Witness ==
    /\ top = "load"
    /\ pc = "returned"
    /\ raised = Exc("Exception", "load failed")
    /\ Len(calls) = 3
    /\ calls[2].ok /\ calls[2].n = 1
    /\ ~calls[3].ok
    /\ database = phases[1].db_before + 1
    /\ Last(execution_log).status = "error"

(***************************************************************************)
(* C21                                                                     *)
(***************************************************************************)
\* The current call is a run whose extract_sources holds no identifier of
\* {'csv', 'api'}: the list is empty, or holds only other identifiers.
NoRecognizedSource ==
    /\ top = "run"
    /\ phases # <<>>
    /\ phases[1].sources \cap {"csv", "api"} = {}

C21_WitnessNoDatabase ==
    /\ NoRecognizedSource
    /\ RunFailed
    /\ phases[1].sources = {}
    /\ "database" \notin DOMAIN config
    /\ Len(phases) = 3
    /\ Last(execution_log) = ErrorEntry("load", KeyErrorDatabase)

(***************************************************************************)
(* C22                                                                     *)
(***************************************************************************)
\* In this state every predict and every save_model call raises a ValueError and
\* leaves the forecaster and the files as they are.
GuardedByValueError ==
    /\ \A d \in Data : \A o \in predict(Self, files, d) :
          ~o.ok /\ o.exc.type = "ValueError" /\ o.self = Self /\ o.files = files
    /\ \A p \in Paths : \A o \in save_model(Self, files, p) :
          ~o.ok /\ o.exc.type = "ValueError" /\ o.self = Self /\ o.files = files

\* A new forecaster is not trained; a forecaster that is not trained answers
\* predict and save_model with a ValueError, and the last call, if it was one of
\* the two, ended so.
C22_UntrainedRaises ==
    ForecasterExists =>
        /\ fcall.op = "__init__" => ~is_trained
        /\ ~is_trained =>
              /\ GuardedByValueError
              /\ fcall.op \in {"predict", "save_model"} =>
                    ~fcall.ok /\ fcall.exc.type = "ValueError"

\* One step of the forecaster: is_trained goes from false to true only in a train
\* or load_model call that returned, and never from true to false.
TrainedOnlyByTrainOrLoad ==
    /\ (~is_trained /\ is_trained') =>
          fcall'.op \in {"train", "load_model"} /\ fcall'.ok
    /\ is_trained => is_trained'
    /\ (~is_trained /\ fcall'.op \in {"predict", "save_model"}) =>
          ~fcall'.ok /\ fcall'.exc.type = "ValueError"

\* C22: in SalesForecaster, predict and save_model raise ValueError in every state
\* where is_trained is false; is_trained is false after construction, becomes true
\* only by a train or load_model call that ends without raising, and never goes
\* back to false, whatever the methods called and whether they return or raise.
C22_TrainedFlag ==
    /\ []C22_UntrainedRaises
    /\ [][TrainedOnlyByTrainOrLoad]_vars

\* The forecaster was trained on set 2 and saved, and a load_model that raised
\* after that has left it trained.
C22_Witness ==
    /\ ForecasterExists
    /\ is_trained
    /\ fcall.op = "load_model" /\ ~fcall.ok
    /\ model = [Estimator(model_type) EXCEPT !.fitted = 2]
    /\ \E p \in Paths : files[p] = model

\* A forecaster that was never trained has answered save_model with the ValueError.
C22_WitnessUntrained ==
    /\ ForecasterExists
    /\ ~is_trained
    /\ model = Estimator(model_type)
    /\ fcall = [op |-> "save_model", ok |-> FALSE,
                exc |-> Exc("ValueError", "Modelo nao treinado")]

====
